---- MODULE Spec2Model ----
(***************************************************************************)
(* Model of jenkins/api_real.go: the caching status resolver               *)
(* (GetStatusForJob), the backward causal walk (CausesOfFailures with      *)
(* addActionIdsToSet / addCauses), the console tail (GetLastLogLines) and  *)
(* the failed-test filter (GetFailedTestListFor).                          *)
(*                                                                         *)
(* Go strings that the code inspects character by character (job names,    *)
(* build ids, cache keys, short descriptions) are sequences of one         *)
(* character strings; strings that are only compared (results, contributor *)
(* names, user ids) are TLA+ strings.                                      *)
(***************************************************************************)
EXTENDS Integers, Sequences, FiniteSets, TLC

VARIABLES
    world,                  \* the Jenkins server and the calls the controller makes
    cachedStatuses,         \* ServerAPI.cachedStatuses: [isNil, m]
    hist,                   \* summaries of the completed API calls, oldest first
    pc,                     \* "idle" | "loop" | "actions" | "crashed"
    name,                   \* CausesOfFailures: parameter name
    startID,                \* CausesOfFailures: parameter id as passed by the caller
    id,                     \* CausesOfFailures: the loop's current id
    visitsToServerAllowed,  \* CausesOfFailures: remaining budget
    set,                    \* CausesOfFailures: the accumulator
    plain,                  \* the accumulator, had the SCM and commit branches done nothing
    statusIterator,         \* CausesOfFailures: the record fetched by this iteration
    stack,                  \* frames of addActionIdsToSet, innermost last
    trace,                  \* one entry per GetStatusForJob call of the loop
    upstream,               \* the (project, build) pairs addCauses asked for, per call
    netCalls,               \* http.Get calls issued by the call in progress
    cstate,                 \* the concurrent resolver contexts (SpecConc only)
    logCall,                \* a GetLastLogLines call (SpecTail only)
    testCall                \* a GetFailedTestListFor call (SpecTests only)

vars == <<world, cachedStatuses, hist, pc, name, startID, id, visitsToServerAllowed,
          set, plain, statusIterator, stack, trace, upstream, netCalls, cstate,
          logCall, testCall>>

walkVars == <<name, startID, id, visitsToServerAllowed, set, plain, statusIterator, stack,
              trace, upstream>>

(***************************** bounds **************************************)
\* API calls the controller makes in one behaviour.
MaxCalls == 2
\* Frames of addActionIdsToSet the goroutine stack holds before the runtime
\* aborts the process with a stack overflow.
MaxDepth == 4
\* Lines asked for by a GetLastLogLines call.
MaxLineCount == 3
\* Newline-separated pieces of the console text the server sends.
MaxBufferLines == 2
\* Test cases in one suite of a test report.
MaxCases == 2

(***************************** strings *************************************)
lastCompletedBuild ==
    <<"l","a","s","t","C","o","m","p","l","e","t","e","d","B","u","i","l","d">>
lastBuild == <<"l","a","s","t","B","u","i","l","d">>
errStatusPageNotFound == "Not Found"
errHTTP == "http.Get error"
NoError == "nil"

SCMChangeDescription ==
    <<"S","t","a","r","t","e","d"," ","b","y"," ","a","n"," ","S","C","M"," ",
      "c","h","a","n","g","e">>
CommitNotificationPrefix ==
    <<"c","o","m","m","i","t"," ","n","o","t","i","f","i","c","a","t","i","o","n">>

Range(s) == {s[i] : i \in DOMAIN s}
Last(s) == s[Len(s)]

\* strings.Contains(s, "/") for a one character needle
Contains(s, c) == \E i \in DOMAIN s : s[i] = c

\* strings.HasPrefix
HasPrefix(s, p) == Len(s) >= Len(p) /\ SubSeq(s, 1, Len(p)) = p

DigitChars == <<"0","1","2","3","4","5","6","7","8","9">>
IsDigit(c) == c \in Range(DigitChars)
DigitVal(c) == (CHOOSE d \in DOMAIN DigitChars : DigitChars[d] = c) - 1

RECURSIVE ParseDigits(_, _)
ParseDigits(s, acc) ==
    IF s = <<>> THEN acc ELSE ParseDigits(Tail(s), acc * 10 + DigitVal(Head(s)))

\* strconv.Atoi with its error dropped: what does not parse counts as 0.
Atoi_ErrorIgnored(s) ==
    LET signed == s # <<>> /\ Head(s) \in {"+", "-"}
        body   == IF signed THEN Tail(s) ELSE s
    IN  IF body = <<>> \/ \E i \in DOMAIN body : ~IsDigit(body[i])
        THEN [ok |-> TRUE, val |-> 0]
        ELSE [ok |-> TRUE,
              val |-> IF signed /\ Head(s) = "-"
                      THEN 0 - ParseDigits(body, 0) ELSE ParseDigits(body, 0)]

\* strconv.Atoi: an optional sign, then one or more decimal digits.
Atoi(s) ==
    LET signed == s # <<>> /\ Head(s) \in {"+", "-"}
        body   == IF signed THEN Tail(s) ELSE s
    IN  IF body = <<>> \/ \E i \in DOMAIN body : ~IsDigit(body[i])
        THEN [ok |-> FALSE, val |-> 0]
        ELSE [ok |-> TRUE,
              val |-> IF signed /\ Head(s) = "-"
                      THEN 0 - ParseDigits(body, 0) ELSE ParseDigits(body, 0)]

RECURSIVE ItoaNat(_)
ItoaNat(n) ==
    IF n < 10 THEN <<DigitChars[n + 1]>>
    ELSE ItoaNat(n \div 10) \o <<DigitChars[(n % 10) + 1]>>

\* strconv.Itoa
Itoa(n) == IF n < 0 THEN <<"-">> \o ItoaNat(0 - n) ELSE ItoaNat(n)

(***************************** records *************************************)
Culprit(fullName) == [FullName |-> fullName]
ChangeSet(authors) ==
    [Items |-> [i \in DOMAIN authors |-> [Author |-> [FullName |-> authors[i]]]]]
Cause(userID, upstreamBuild, upstreamProject, shortDescription) ==
    [UserID |-> userID, UpstreamBuild |-> upstreamBuild,
     UpstreamProject |-> upstreamProject, ShortDescription |-> shortDescription]
Action(causes) == [Causes |-> causes]
JobStatus(result, culprits, actions, changeSets) ==
    [Result |-> result, Culprits |-> culprits, Actions |-> actions,
     ChangeSets |-> changeSets]

\* &JobStatus{}: what json Decode starts from
ZeroStatus == JobStatus("", <<>>, <<>>, <<>>)

UserCause(u) == Cause(u, 0, <<>>, <<>>)
UpstreamCause(project, build) == Cause("", build, project, <<>>)
SCMCause == Cause("", 0, <<>>, SCMChangeDescription)
CommitCause == Cause("", 0, <<>>, CommitNotificationPrefix \o <<" ", "x">>)
OtherCause == Cause("", 0, <<>>, <<"t","i","m","e","r">>)

(***************************** the server **********************************)
\* What http.Get and the JSON decoder make of one request:
\*   failed      http.Get returned an error
\*   StatusCode  the response's status
\*   decodeErr   Decode returned an error
\*   body        the JobStatus that Decode left in result
Reply(code, status) ==
    [failed |-> FALSE, StatusCode |-> code, decodeErr |-> FALSE, body |-> status]
Unreachable ==
    [failed |-> TRUE, StatusCode |-> 0, decodeErr |-> FALSE, body |-> ZeroStatus]
Malformed(partial) ==
    [failed |-> FALSE, StatusCode |-> 200, decodeErr |-> TRUE, body |-> partial]
PageNotFound == Reply(404, ZeroStatus)

\* The response to GET <server>/job/<job>/<id>/api/json
HttpGet(srv, job, i) ==
    IF <<job, i>> \in DOMAIN srv THEN srv[<<job, i>>] ELSE PageNotFound

(***************************** GetStatusForJob *****************************)
NilMap == [isNil |-> TRUE, m |-> <<>>]

\* fmt.Sprintf("%s-%s", job, id)
possibleCacheKey(job, i) == job \o <<"-">> \o i

\* strings.Contains(job, "/")
IsFolderJob(job) == Contains(job, "/")

\* id != lastBuild && id != lastCompletedBuild
NotAlias(i) == i # lastBuild /\ i # lastCompletedBuild

\* if api.cachedStatuses == nil { api.cachedStatuses = make(...) }
EnsureMap(cache) == IF cache.isNil THEN [isNil |-> FALSE, m |-> <<>>] ELSE cache

\* cachedValue, ok := api.cachedStatuses[possibleCacheKey]
CacheHit(cache, job, i) == NotAlias(i) /\ possibleCacheKey(job, i) \in DOMAIN cache.m

\* The store guarded by the decoder's error alone.
ShouldStore_AnyID(r, i) == ~r.decodeErr

\* The store guarded by the id alone.
ShouldStore_AnyResult(r, i) == NotAlias(i)

\* err == nil && id != lastBuild && id != lastCompletedBuild
ShouldStore(r, i) == ~r.decodeErr /\ NotAlias(i)

\* api.cachedStatuses[possibleCacheKey] = result
StoreStatus(cache, job, i, status) ==
    [cache EXCEPT !.m = (possibleCacheKey(job, i) :> status) @@ cache.m]

\* The error GetStatusForJob returns for a folder-style job name.
FolderJobError == errStatusPageNotFound

\* One whole call of GetStatusForJob on the resolver whose cache is `cache`:
\* the returned (status, err), the cache afterwards, the number of http.Get
\* calls issued and whether the record came from the cache.
GetStatusForJob(cache, srv, job, i) ==
    IF IsFolderJob(job)
    THEN [isNil |-> TRUE, status |-> ZeroStatus, err |-> FolderJobError,
          cache |-> cache, net |-> 0, hit |-> FALSE]
    ELSE
      LET c1 == IF NotAlias(i) THEN EnsureMap(cache) ELSE cache IN
      IF CacheHit(c1, job, i)
      THEN [isNil |-> FALSE, status |-> c1.m[possibleCacheKey(job, i)],
            err |-> NoError, cache |-> c1, net |-> 0, hit |-> TRUE]
      ELSE
        LET r == HttpGet(srv, job, i) IN
        IF r.failed
        THEN [isNil |-> TRUE, status |-> ZeroStatus, err |-> errHTTP,
              cache |-> c1, net |-> 1, hit |-> FALSE]
        ELSE IF r.StatusCode = 404
        THEN [isNil |-> TRUE, status |-> ZeroStatus, err |-> errStatusPageNotFound,
              cache |-> c1, net |-> 1, hit |-> FALSE]
        ELSE [isNil |-> FALSE, status |-> r.body, err |-> NoError,
              cache |-> IF ShouldStore(r, i) THEN StoreStatus(c1, job, i, r.body)
                        ELSE c1,
              net |-> 1, hit |-> FALSE]

(***************************** the walker **********************************)
\* var visitsToServerAllowed = 20
InitialVisits == 20

\* The budget charged twice per iteration.
Decrement_Twice(v) == v - 2

\* visitsToServerAllowed--
Decrement(v) == v - 1

\* if visitsToServerAllowed <= 0 { break }
BudgetExhausted(v) == v <= 0

\* Only SUCCESS closes a failure streak.
IsClosingResult_SuccessOnly(r) == r = "SUCCESS"

\* statusIterator.Result == "SUCCESS" || statusIterator.Result == "FIXED"
IsClosingResult(r) == r = "SUCCESS" \/ r = "FIXED"

\* The id written back without the decrement.
PreviousID_Same(i) == Itoa(Atoi(i).val)

\* id = strconv.Itoa(currentID - 1)
PreviousID(i) == Itoa(Atoi(i).val - 1)

addCulpritIdsToSet(s, culprits) ==
    s \cup {culprits[k].FullName : k \in DOMAIN culprits}

addChangeSetsToSet(s, changeSets) ==
    s \cup UNION {{changeSets[k].Items[j].Author.FullName :
                       j \in DOMAIN changeSets[k].Items} : k \in DOMAIN changeSets}

\* Line 143 without line 144.
MergeOwn_CulpritsOnly(s, status) == addCulpritIdsToSet(s, status.Culprits)

\* api.addCulpritIdsToSet(set, statusIterator.Culprits)
\* api.addChangeSetsToSet(set, statusIterator.ChangeSets)
MergeOwn(s, status) ==
    addChangeSetsToSet(addCulpritIdsToSet(s, status.Culprits), status.ChangeSets)

\* The causes of a record in the order of the two nested range loops.
RECURSIVE FlattenCauses(_)
FlattenCauses(actions) ==
    IF actions = <<>> THEN <<>>
    ELSE Head(actions).Causes \o FlattenCauses(Tail(actions))

\* One activation of addActionIdsToSet(set, status), about to look at causes[pos].
Frame(status) == [status |-> status, causes |-> FlattenCauses(status.Actions), pos |-> 1]

\* The chain with its first two tests swapped.
Classify_UpstreamFirst(cause) ==
    IF cause.UpstreamBuild # 0 /\ cause.UpstreamProject # <<>> THEN "upstream"
    ELSE IF cause.UserID # "" THEN "user"
    ELSE IF cause.ShortDescription = SCMChangeDescription THEN "scm"
    ELSE IF HasPrefix(cause.ShortDescription, CommitNotificationPrefix) THEN "commit"
    ELSE "none"

\* Which branch of the if / else-if chain of addActionIdsToSet a cause takes.
Classify(cause) ==
    IF cause.UserID # "" THEN "user"
    ELSE IF cause.UpstreamBuild # 0 /\ cause.UpstreamProject # <<>> THEN "upstream"
    ELSE IF cause.ShortDescription = SCMChangeDescription THEN "scm"
    ELSE IF HasPrefix(cause.ShortDescription, CommitNotificationPrefix) THEN "commit"
    ELSE "none"

WalkIdle ==
    /\ name = <<>> /\ startID = <<>> /\ id = <<>>
    /\ visitsToServerAllowed = InitialVisits
    /\ set = {} /\ plain = {} /\ statusIterator = ZeroStatus /\ stack = <<>>
    /\ trace = <<>> /\ upstream = <<>>

\* The locals of CausesOfFailures go out of scope.
WalkReset ==
    /\ name' = <<>> /\ startID' = <<>> /\ id' = <<>>
    /\ visitsToServerAllowed' = InitialVisits
    /\ set' = {} /\ plain' = {} /\ statusIterator' = ZeroStatus /\ stack' = <<>>
    /\ trace' = <<>> /\ upstream' = <<>>

\* return mapKeysToSlice(set): the call's summary joins hist.
Return(reason, visits) ==
    /\ hist' = Append(hist,
                 [op |-> "CausesOfFailures", job |-> name, id |-> startID,
                  ret |-> set, plain |-> plain, stop |-> reason, visitsLeft |-> visits,
                  trace |-> trace, upstream |-> upstream, net |-> netCalls])
    /\ pc' = "idle"
    /\ WalkReset
    /\ netCalls' = 0
    /\ UNCHANGED <<world, cachedStatuses, cstate, logCall, testCall>>

\* func (api *ServerAPI) GetStatusForJob, called by the controller
CallGetStatusForJob(job, i) ==
    /\ pc = "idle"
    /\ Len(hist) < MaxCalls
    /\ <<job, i>> \in world.gets
    /\ LET g == GetStatusForJob(cachedStatuses, world.server, job, i) IN
       /\ cachedStatuses' = g.cache
       /\ hist' = Append(hist,
                    [op |-> "GetStatusForJob", job |-> job, id |-> i,
                     isNil |-> g.isNil, status |-> g.status, err |-> g.err,
                     net |-> g.net, hit |-> g.hit, before |-> cachedStatuses,
                     after |-> g.cache])
    /\ UNCHANGED <<world, pc, walkVars, netCalls, cstate, logCall, testCall>>

\* func (api *ServerAPI) GetCurrentStatus
CallGetCurrentStatus(job) ==
    /\ <<job, lastBuild>> \in world.gets
    /\ CallGetStatusForJob(job, lastBuild)

\* func (api *ServerAPI) CausesOfFailures: entry, up to the for loop
CallCausesOfFailures(n, i) ==
    /\ pc = "idle"
    /\ Len(hist) < MaxCalls
    /\ <<n, i>> \in world.walks
    /\ pc' = "loop"
    /\ name' = n /\ startID' = i /\ id' = i
    /\ visitsToServerAllowed' = InitialVisits
    /\ set' = {} /\ plain' = {}
    /\ netCalls' = 0
    /\ UNCHANGED <<world, cachedStatuses, hist, statusIterator, stack, trace,
                   upstream, cstate, logCall, testCall>>

\* func (api *ServerAPI) CausesOfPreviousFailures
CallCausesOfPreviousFailures(n) ==
    /\ n \in world.previous
    /\ pc = "idle"
    /\ Len(hist) < MaxCalls
    /\ pc' = "loop"
    /\ name' = n /\ startID' = lastCompletedBuild /\ id' = lastCompletedBuild
    /\ visitsToServerAllowed' = InitialVisits
    /\ set' = {} /\ plain' = {}
    /\ netCalls' = 0
    /\ UNCHANGED <<world, cachedStatuses, hist, statusIterator, stack, trace,
                   upstream, cstate, logCall, testCall>>

\* One iteration of the for loop of CausesOfFailures, up to the call of
\* addActionIdsToSet.
LoopIteration ==
    /\ pc = "loop"
    /\ IF id = lastCompletedBuild
       THEN Return("alias", visitsToServerAllowed)
       ELSE IF ~Atoi(id).ok
       THEN Return("parse", visitsToServerAllowed)
       ELSE IF BudgetExhausted(Decrement(visitsToServerAllowed))
       THEN Return("budget", Decrement(visitsToServerAllowed))
       ELSE
         LET v == Decrement(visitsToServerAllowed)
             g == GetStatusForJob(cachedStatuses, world.server, name, id)
             t == Append(trace, [id |-> id, err |-> g.err, Result |-> g.status.Result,
                                 set |-> set, visits |-> v, net |-> g.net])
         IN
         IF g.err # NoError
         THEN IF g.err = errStatusPageNotFound
              THEN /\ id' = PreviousID(id)
                   /\ visitsToServerAllowed' = v
                   /\ cachedStatuses' = g.cache
                   /\ trace' = t
                   /\ netCalls' = netCalls + g.net
                   /\ UNCHANGED <<world, hist, pc, name, startID, set, plain, statusIterator,
                                  stack, upstream, cstate, logCall, testCall>>
              ELSE /\ hist' = Append(hist,
                         [op |-> "CausesOfFailures", job |-> name, id |-> startID,
                          ret |-> set, plain |-> plain, stop |-> "error",
                          visitsLeft |-> v,
                          trace |-> t, upstream |-> upstream,
                          net |-> netCalls + g.net])
                   /\ pc' = "idle"
                   /\ WalkReset
                   /\ netCalls' = 0
                   /\ cachedStatuses' = g.cache
                   /\ UNCHANGED <<world, cstate, logCall, testCall>>
         ELSE IF IsClosingResult(g.status.Result)
         THEN /\ hist' = Append(hist,
                    [op |-> "CausesOfFailures", job |-> name, id |-> startID,
                     ret |-> set, plain |-> plain, stop |-> "closed",
                     visitsLeft |-> v,
                     trace |-> t, upstream |-> upstream,
                     net |-> netCalls + g.net])
              /\ pc' = "idle"
              /\ WalkReset
              /\ netCalls' = 0
              /\ cachedStatuses' = g.cache
              /\ UNCHANGED <<world, cstate, logCall, testCall>>
         ELSE /\ pc' = "actions"
              /\ statusIterator' = g.status
              /\ stack' = <<Frame(g.status)>>
              /\ visitsToServerAllowed' = v
              /\ cachedStatuses' = g.cache
              /\ trace' = t
              /\ netCalls' = netCalls + g.net
              /\ UNCHANGED <<world, hist, name, startID, id, set, plain, upstream,
                             cstate, logCall, testCall>>

\* One step of addActionIdsToSet / addCauses on the innermost frame: a cause is
\* classified, or the frame's loops are over and it returns. When the
\* outermost frame returns, the iteration of CausesOfFailures finishes
\* (addCulpritIdsToSet, addChangeSetsToSet, id = Itoa(currentID - 1)).
ActionsStep ==
    /\ pc = "actions"
    /\ LET d    == Len(stack)
           top  == stack[d]
           next == [stack EXCEPT ![d].pos = @ + 1]
       IN
       IF top.pos > Len(top.causes)
       THEN IF d = 1
            THEN /\ set' = MergeOwn(set, statusIterator)
                 /\ plain' = MergeOwn(plain, statusIterator)
                 /\ id' = PreviousID(id)
                 /\ pc' = "loop"
                 /\ stack' = <<>>
                 /\ UNCHANGED <<world, cachedStatuses, hist, name, startID,
                                visitsToServerAllowed, statusIterator, trace,
                                upstream, netCalls, cstate, logCall, testCall>>
            ELSE /\ stack' = SubSeq(stack, 1, d - 1)
                 /\ UNCHANGED <<world, cachedStatuses, hist, pc, name, startID, id,
                                visitsToServerAllowed, set, plain, statusIterator, trace,
                                upstream, netCalls, cstate, logCall, testCall>>
       ELSE
         LET cause == top.causes[top.pos]
             kind  == Classify(cause)
         IN
         IF kind = "upstream"
         THEN LET g == GetStatusForJob(cachedStatuses, world.server,
                                       cause.UpstreamProject, Itoa(cause.UpstreamBuild))
              IN
              /\ cachedStatuses' = g.cache
              /\ netCalls' = netCalls + g.net
              /\ upstream' = Append(upstream,
                                 <<cause.UpstreamProject, cause.UpstreamBuild>>)
              /\ IF g.err # NoError
                 THEN stack' = next /\ pc' = pc
                 ELSE IF d >= MaxDepth
                 THEN stack' = next /\ pc' = "crashed"
                 ELSE stack' = Append(next, Frame(g.status)) /\ pc' = pc
              /\ UNCHANGED <<world, hist, name, startID, id, visitsToServerAllowed,
                             set, plain, statusIterator, trace, cstate, logCall, testCall>>
         ELSE /\ set' = CASE kind = "user"   -> set \cup {cause.UserID}
                          [] kind = "scm"    -> addCulpritIdsToSet(set, top.status.Culprits)
                          [] kind = "commit" -> addChangeSetsToSet(set, top.status.ChangeSets)
                          [] OTHER           -> set
              /\ plain' = IF kind = "user" THEN plain \cup {cause.UserID} ELSE plain
              /\ stack' = next
              /\ UNCHANGED <<world, cachedStatuses, hist, pc, name, startID, id,
                             visitsToServerAllowed, statusIterator, trace, upstream,
                             netCalls, cstate, logCall, testCall>>

(***************************** the worlds **********************************)
JA == <<"A">>
JB == <<"B">>
JG == <<"G">>
JU == <<"U">>
JFolder == <<"t","e","a","m","/","p","r","o","j","e","c","t">>
NotANumber == <<"a","b","c">>

Failure(c) == Reply(200, JobStatus("FAILURE", <<Culprit(c)>>, <<>>, <<>>))
Closed(result, c) == Reply(200, JobStatus(result, <<Culprit(c)>>, <<>>, <<>>))
Triggered(result, causes) ==
    Reply(200, JobStatus(result, <<>>, <<Action(causes)>>, <<>>))

World(server, gets, walks, previous) ==
    [server |-> server, gets |-> gets, walks |-> walks, previous |-> previous]

\* #5 FAILURE(A), #4 FAILURE(B), #3 SUCCESS(C)
ChainServer ==
    (<<JA, Itoa(5)>> :> Failure("A")) @@ (<<JA, Itoa(4)>> :> Failure("B"))
    @@ (<<JA, Itoa(3)>> :> Closed("SUCCESS", "C"))
    @@ (<<JA, lastBuild>> :> Failure("A"))

\* #10 purged, #9 FAILURE(C), #8 SUCCESS
GapServer ==
    (<<JA, Itoa(9)>> :> Failure("C")) @@ (<<JA, Itoa(8)>> :> Closed("SUCCESS", "D"))

\* #2 FAILURE(A), #1 FIXED(C)
FixedServer ==
    (<<JA, Itoa(2)>> :> Failure("A")) @@ (<<JA, Itoa(1)>> :> Closed("FIXED", "C"))

StreakNames ==
    <<"u1","u2","u3","u4","u5","u6","u7","u8","u9","u10","u11","u12","u13",
      "u14","u15","u16","u17","u18","u19","u20","u21","u22","u23","u24","u25">>

\* builds 1..25 of A, all FAILURE, each with its own culprit
StreakServer ==
    [k \in {<<JA, Itoa(n)>> : n \in DOMAIN StreakNames} |->
        Failure(StreakNames[Atoi(k[2]).val])]

\* A#1 was triggered by B#1 and B#1 by A#1
CycleServer ==
    (<<JA, Itoa(1)>> :> Triggered("FAILURE", <<UpstreamCause(JB, 1)>>))
    @@ (<<JB, Itoa(1)>> :> Triggered("FAILURE", <<UpstreamCause(JA, 1)>>))

\* A#1 (started by user U, SUCCESS) triggered B#1, which triggered A#2 (FAILURE)
PingPongServer ==
    (<<JA, Itoa(2)>> :> Triggered("FAILURE", <<UpstreamCause(JB, 1)>>))
    @@ (<<JB, Itoa(1)>> :> Triggered("SUCCESS", <<UpstreamCause(JA, 1)>>))
    @@ (<<JA, Itoa(1)>> :> Triggered("SUCCESS", <<UserCause("U")>>))

\* #3 FAILURE(A), #2 answered with a payload that is no JSON at all, #1 FAILURE(B)
MalformedServer ==
    (<<JA, Itoa(3)>> :> Failure("A")) @@ (<<JA, Itoa(2)>> :> Malformed(ZeroStatus))
    @@ (<<JA, Itoa(1)>> :> Failure("B"))

\* #2 FAILURE(A), #1 a payload whose result and culprits decode and a later
\* field does not
MalformedClosedServer ==
    (<<JA, Itoa(2)>> :> Failure("A"))
    @@ (<<JA, Itoa(1)>> :>
          Malformed(JobStatus("SUCCESS", <<Culprit("C")>>, <<>>, <<>>)))

\* A#1 FAILURE with a culprit, a change set, an SCM cause, a commit
\* notification cause and an upstream cause to B#1, which has a culprit, a
\* change set and an SCM cause of its own
RedundantServer ==
    (<<JA, Itoa(1)>> :>
        Reply(200, JobStatus("FAILURE", <<Culprit("A")>>,
                             <<Action(<<SCMCause, CommitCause, UpstreamCause(JB, 1)>>)>>,
                             <<ChangeSet(<<"H">>)>>)))
    @@ (<<JB, Itoa(1)>> :>
        Reply(200, JobStatus("SUCCESS", <<Culprit("D")>>, <<Action(<<SCMCause>>)>>,
                             <<ChangeSet(<<"E">>)>>)))

\* A#1 FAILURE whose first cause carries a user id, upstream fields and the
\* SCM description at once, and whose second cause matches no rule
MixedServer ==
    (<<JA, Itoa(1)>> :>
        Reply(200, JobStatus("FAILURE", <<Culprit("K")>>,
                             <<Action(<<Cause("U", 1, JB, SCMChangeDescription),
                                        OtherCause>>)>>,
                             <<>>)))
    @@ (<<JB, Itoa(1)>> :> Triggered("FAILURE", <<UserCause("X")>>))

\* A#2 FAILURE(A) whose causes point upstream at B#1 (no such build), B#2
\* (server unreachable), a folder job and B#3 (a payload of which the causes
\* decode and a later field does not), then name user U; A#1 SUCCESS
UpstreamFailServer ==
    (<<JA, Itoa(2)>> :>
        Reply(200, JobStatus("FAILURE", <<Culprit("A")>>,
                             <<Action(<<UpstreamCause(JB, 1), UpstreamCause(JB, 2),
                                        UpstreamCause(JFolder, 1), UpstreamCause(JB, 3),
                                        UserCause("U")>>)>>,
                             <<>>)))
    @@ (<<JB, Itoa(2)>> :> Unreachable)
    @@ (<<JB, Itoa(3)>> :>
          Malformed(JobStatus("", <<>>, <<Action(<<UserCause("X")>>)>>, <<>>)))
    @@ (<<JA, Itoa(1)>> :> Closed("SUCCESS", "C"))

NamedWorlds ==
    { World(ChainServer, {<<JA, Itoa(5)>>, <<JA, lastBuild>>}, {<<JA, Itoa(5)>>}, {}),
      World(GapServer, {<<JA, Itoa(10)>>, <<JA, Itoa(9)>>}, {<<JA, Itoa(10)>>}, {}),
      World(FixedServer, {<<JA, Itoa(2)>>}, {<<JA, Itoa(2)>>}, {}),
      World(StreakServer, {<<JA, Itoa(25)>>}, {<<JA, Itoa(25)>>}, {}),
      World(CycleServer, {<<JB, Itoa(1)>>}, {<<JA, Itoa(1)>>}, {}),
      World(PingPongServer, {<<JB, Itoa(1)>>}, {<<JA, Itoa(2)>>}, {}),
      World(MalformedServer, {<<JA, Itoa(2)>>}, {<<JA, Itoa(3)>>}, {}),
      World(MalformedClosedServer, {<<JA, Itoa(1)>>}, {<<JA, Itoa(2)>>}, {}),
      World(RedundantServer, {}, {<<JA, Itoa(1)>>}, {}),
      World(MixedServer, {}, {<<JA, Itoa(1)>>}, {}),
      World(UpstreamFailServer, {}, {<<JA, Itoa(2)>>}, {}) }

\* The histories of job G: builds 1..3, each answered in one of these ways.
GCulprit == <<"g1", "g2", "g3">>
GAuthor == <<"h1", "h2", "h3">>
Templates(k) ==
    { Reply(200, JobStatus("FAILURE", <<Culprit(GCulprit[k])>>, <<>>,
                           <<ChangeSet(<<GAuthor[k]>>)>>)),
      Reply(200, JobStatus("FAILURE", <<Culprit(GCulprit[k])>>,
                           <<Action(<<UpstreamCause(JU, 1)>>)>>, <<>>)),
      Closed("SUCCESS", GCulprit[k]),
      PageNotFound,
      Unreachable,
      Malformed(JobStatus("", <<Culprit(GCulprit[k])>>, <<>>, <<>>)) }

UpstreamServer ==
    (<<JU, Itoa(1)>> :>
        Reply(200, JobStatus("SUCCESS", <<Culprit("d")>>,
                             <<Action(<<UserCause("root"), SCMCause>>)>>, <<>>)))
    @@ (<<JG, lastBuild>> :> Triggered("", <<UserCause("root")>>))

GenericWorlds ==
    { World((<<JG, Itoa(1)>> :> r1) @@ (<<JG, Itoa(2)>> :> r2)
            @@ (<<JG, Itoa(3)>> :> r3) @@ UpstreamServer,
            {<<JG, Itoa(1)>>, <<JG, lastBuild>>, <<JG, lastCompletedBuild>>,
             <<JFolder, Itoa(1)>>},
            {<<JG, Itoa(3)>>, <<JG, NotANumber>>, <<JFolder, Itoa(2)>>},
            {JG}) :
        r1 \in Templates(1), r2 \in Templates(2), r3 \in Templates(3) }

Worlds == NamedWorlds \cup GenericWorlds

(***************************** specification *******************************)
Init ==
    /\ world \in Worlds
    /\ cachedStatuses = NilMap
    /\ hist = <<>>
    /\ pc = "idle"
    /\ WalkIdle
    /\ netCalls = 0
    /\ cstate = <<>>
    /\ logCall = <<>>
    /\ testCall = <<>>

Next ==
    \/ \E c \in world.gets : CallGetStatusForJob(c[1], c[2])
    \/ \E c \in world.gets : CallGetCurrentStatus(c[1])
    \/ \E c \in world.walks : CallCausesOfFailures(c[1], c[2])
    \/ \E n \in world.previous : CallCausesOfPreviousFailures(n)
    \/ LoopIteration
    \/ ActionsStep

Spec == Init /\ [][Next]_vars

(***************************** vocabulary of the properties ********************)
IsWalk(h) == h.op = "CausesOfFailures"
IsGet(h) == h.op = "GetStatusForJob"
CompletedWalks == {hist[k] : k \in {j \in DOMAIN hist : IsWalk(hist[j])}}
CompletedGets == {hist[k] : k \in {j \in DOMAIN hist : IsGet(hist[j])}}

\* A concrete numeric identifier: the decimal form of a positive integer.
IsNumericID(i) == Atoi(i).ok /\ Atoi(i).val > 0 /\ Itoa(Atoi(i).val) = i
IsAliasID(i) == i \in {lastBuild, lastCompletedBuild}
HasPathSeparator(job) == \E k \in DOMAIN job : job[k] = "/"

\* The ids the loop asked the resolver for, in order.
RequestedIDs(t) == [k \in DOMAIN t |-> t[k].id]

\* How the remote service answers (job, i), in the words of the error kinds.
Outcome(job, i) ==
    LET r == HttpGet(world.server, job, i) IN
    IF HasPathSeparator(job) THEN "NotSupported"
    ELSE IF r.failed THEN "TransportError"
    ELSE IF r.StatusCode = 404 THEN "NotFound"
    ELSE IF r.decodeErr THEN "DecodeError"
    ELSE "Record"

\* The error kind a caller of Get sees.
ErrorKind(err) ==
    IF err = NoError THEN "none"
    ELSE IF err = errStatusPageNotFound THEN "NotFound"
    ELSE "TransportError"

\* Every contributor a record names.
NamesIn(status) ==
    {status.Culprits[k].FullName : k \in DOMAIN status.Culprits}
    \cup UNION {{cs.Items[j].Author.FullName : j \in DOMAIN cs.Items} :
                    cs \in Range(status.ChangeSets)}
    \cup UNION {{a.Causes[j].UserID : j \in {x \in DOMAIN a.Causes : a.Causes[x].UserID # ""}} :
                    a \in Range(status.Actions)}

\* The record the service holds for (job, i), if it holds one.
Holds(job, i) == Outcome(job, i) \in {"Record", "DecodeError"}
RecordOf(job, i) == HttpGet(world.server, job, i).body

NoDuplicates(s) == \A a, b \in DOMAIN s : s[a] = s[b] => a = b

(***************************** C1 ******************************************)
\* C1: CausesOfFailures terminates for every build history, cyclic upstream
\* links included: the upstream resolution never resolves the same
\* (project, build) pair twice within one call, and never exhausts the stack.
C1_UpstreamResolutionTerminates ==
    /\ pc # "crashed"
    /\ NoDuplicates(upstream)
    /\ \A h \in CompletedWalks : NoDuplicates(h.upstream)

(***************************** C2 ******************************************)
\* C2: with builds 1..25 all FAILURE, CausesOfFailures(job, 25) asks the
\* resolver for exactly 20 builds, ids 25 down to 6, whatever the cache holds.
C2_StreakRequestsTwentyBuilds ==
    \A h \in CompletedWalks :
        (world.server = StreakServer /\ h.job = JA /\ h.id = Itoa(25))
            => RequestedIDs(h.trace) = [k \in 1..20 |-> Itoa(26 - k)]

(***************************** C3 ******************************************)
\* A contributor that the service's records name only in build m of the job
\* or in older builds of it.
OnlyAtOrBelow(c, job, m) ==
    \A key \in DOMAIN world.server :
        (Holds(key[1], key[2]) /\ c \in NamesIn(RecordOf(key[1], key[2])))
            => key[1] = job /\ Atoi(key[2]).ok /\ Atoi(key[2]).val <= m

\* The ids of a walk go down one by one from the start id, and a build whose
\* Result is SUCCESS or FIXED is the last one asked for and ends the walk.
StopsAtFirstClosingBuild(t, done, stop) ==
    /\ \A k \in DOMAIN t :
          /\ k > 1 => Atoi(t[k].id).val = Atoi(t[k - 1].id).val - 1
          /\ (t[k].err = NoError /\ t[k].Result \in {"SUCCESS", "FIXED"})
                => k = Len(t) /\ done /\ stop = "closed"

ChainResult(h) ==
    (world.server = ChainServer /\ h.job = JA /\ h.id = Itoa(5)) => h.ret = {"A", "B"}

\* C3 as stated: the walk stops at the first SUCCESS or FIXED build, no
\* returned contributor appears only in that build or in older builds, and the
\* chain #5 FAILURE(A), #4 FAILURE(B), #3 SUCCESS(C) gives {A, B}.
C3_Original ==
    /\ StopsAtFirstClosingBuild(trace, FALSE, "")
    /\ \A h \in CompletedWalks :
          /\ StopsAtFirstClosingBuild(h.trace, TRUE, h.stop)
          /\ h.stop = "closed" =>
                \A c \in h.ret : ~OnlyAtOrBelow(c, h.job, Atoi(Last(h.trace).id).val)
          /\ ChainResult(h)

\* C3 as amended: the walk stops at the first SUCCESS or FIXED build, every
\* returned contributor is named by a build of the streak above it or by a
\* build that an UpstreamCause resolution fetched, and the chain gives {A, B}.
C3_StopsAtClosingBuild ==
    /\ StopsAtFirstClosingBuild(trace, FALSE, "")
    /\ \A h \in CompletedWalks :
          /\ StopsAtFirstClosingBuild(h.trace, TRUE, h.stop)
          /\ h.stop = "closed" =>
                \A c \in h.ret :
                    \/ \E k \in 1..(Len(h.trace) - 1) :
                          /\ h.trace[k].err = NoError
                          /\ c \in NamesIn(RecordOf(h.job, h.trace[k].id))
                    \/ \E u \in Range(h.upstream) :
                          /\ Holds(u[1], Itoa(u[2]))
                          /\ c \in NamesIn(RecordOf(u[1], Itoa(u[2])))
          /\ ChainResult(h)

C3_Witness ==
    \E h \in CompletedWalks :
        /\ world.server = ChainServer /\ h.id = Itoa(5)
        /\ h.stop = "closed" /\ h.ret = {"A", "B"}
        /\ RequestedIDs(h.trace) = <<Itoa(5), Itoa(4), Itoa(3)>>

(***************************** C4 ******************************************)
\* C4: when the resolver answers NotFound for (job, currentID) the accumulator
\* is left as it was and the walk goes on with currentID - 1; with #10
\* NotFound, #9 FAILURE(C), #8 SUCCESS the result of a walk from 10 is {C}.
C4_NotFoundSkipsTheBuild ==
    /\ (pc = "loop" /\ trace # <<>> /\ Last(trace).err = errStatusPageNotFound)
          => /\ set = Last(trace).set
             /\ id = Itoa(Atoi(Last(trace).id).val - 1)
    /\ \A h \in CompletedWalks :
          /\ \A k \in DOMAIN h.trace :
                h.trace[k].err = errStatusPageNotFound =>
                    IF k < Len(h.trace)
                    THEN /\ h.trace[k + 1].id = Itoa(Atoi(h.trace[k].id).val - 1)
                         /\ h.trace[k + 1].set = h.trace[k].set
                    ELSE h.stop = "budget" /\ h.ret = h.trace[k].set
          /\ (world.server = GapServer /\ h.job = JA /\ h.id = Itoa(10))
                => h.ret = {"C"}

C4_Witness ==
    \E h \in CompletedWalks :
        /\ world.server = GapServer /\ h.id = Itoa(10)
        /\ h.trace[1].err = errStatusPageNotFound
        /\ h.trace[2].id = Itoa(9) /\ h.trace[2].set = {}
        /\ h.ret = {"C"}

(***************************** C5 ******************************************)
UnitsConsumed(h) == InitialVisits - h.visitsLeft

\* C5 as stated: with #10 NotFound, #9 FAILURE, #8 SUCCESS a walk from 10
\* consumes exactly two units of the step budget.
C5_Original ==
    \A h \in CompletedWalks :
        (world.server = GapServer /\ h.job = JA /\ h.id = Itoa(10))
            => UnitsConsumed(h) = 2

\* C5 as amended: that walk consumes exactly three units, one for each of
\* #10, #9 and #8 (the fetch of the closing build is paid for too).
C5_GapWalkConsumesThreeUnits ==
    \A h \in CompletedWalks :
        (world.server = GapServer /\ h.job = JA /\ h.id = Itoa(10))
            => /\ UnitsConsumed(h) = 3
               /\ RequestedIDs(h.trace) = <<Itoa(10), Itoa(9), Itoa(8)>>
               /\ \A k \in DOMAIN h.trace : h.trace[k].visits = 20 - k

C5_Witness ==
    \E h \in CompletedWalks :
        /\ world.server = GapServer /\ h.id = Itoa(10)
        /\ h.stop = "closed" /\ h.visitsLeft = 17 /\ Len(h.trace) = 3

(***************************** C6 ******************************************)
\* C6: after a successful Get(job, id) with a concrete numeric id, every later
\* Get(job, id) returns the identical record without a network call; two
\* consecutive calls from a cold cache cost exactly one network fetch.
C6_LaterGetServedFromCache ==
    \A a, b \in DOMAIN hist :
        (/\ a < b /\ IsGet(hist[a]) /\ IsGet(hist[b])
         /\ hist[a].job = hist[b].job /\ hist[a].id = hist[b].id
         /\ IsNumericID(hist[a].id) /\ hist[a].err = NoError)
            => /\ hist[b].net = 0
               /\ hist[b].err = NoError
               /\ hist[b].status = hist[a].status
               /\ (a = 1 /\ b = 2) => hist[a].net + hist[b].net = 1

(***************************** C7 ******************************************)
\* C7: the cache never holds an entry stored by a fetch of "lastBuild" or
\* "lastCompletedBuild": a Get with an alias id fetches afresh and neither
\* reads nor writes the cache; every entry is the record of a concrete
\* numeric id.
C7_AliasesNeverCached ==
    /\ \A key \in DOMAIN cachedStatuses.m :
          \E k \in DOMAIN world.server :
              /\ IsNumericID(k[2])
              /\ key = k[1] \o <<"-">> \o k[2]
              /\ cachedStatuses.m[key] = world.server[k].body
    /\ \A h \in CompletedGets :
          (IsAliasID(h.id) /\ ~HasPathSeparator(h.job))
              => h.net = 1 /\ ~h.hit /\ h.after = h.before

C7_Witness ==
    /\ Len(hist) = 2
    /\ IsGet(hist[1]) /\ IsNumericID(hist[1].id) /\ hist[1].err = NoError
    /\ IsGet(hist[2]) /\ hist[2].id = lastBuild /\ hist[2].err = NoError
    /\ hist[2].net = 1
    /\ DOMAIN cachedStatuses.m = {hist[1].job \o <<"-">> \o hist[1].id}

(***************************** C8 ******************************************)
\* C8: Get for a job name holding a path separator returns the NotSupported
\* error kind and issues no network call, for every id and cache state.
C8_FolderJobNotSupported ==
    \A h \in CompletedGets :
        HasPathSeparator(h.job) => h.net = 0 /\ ErrorKind(h.err) = "NotSupported"

(***************************** C10 *****************************************)
\* An iteration whose fetch ended in an error kind other than NotFound is the
\* walk's last, and the walk returns what it had accumulated before it.
StopsOnOtherError(job, t, done, stop, ret) ==
    \A k \in DOMAIN t :
        Outcome(job, t[k].id) \in {"NotSupported", "TransportError", "DecodeError"}
            => k = Len(t) /\ done /\ stop = "error" /\ ret = t[k].set

\* C10: NotFound is the only resolver error the walker continues on: on
\* NotSupported, TransportError or DecodeError the loop stops at that
\* iteration and CausesOfFailures returns the contributors accumulated so far.
C10_OnlyNotFoundContinues ==
    /\ StopsOnOtherError(name, trace, FALSE, "", {})
    /\ \A h \in CompletedWalks : StopsOnOtherError(h.job, h.trace, TRUE, h.stop, h.ret)

(***************************** concurrent resolver calls *******************)
\* GetStatusForJob run by several goroutines on one ServerAPI, statement by
\* statement. ServerAPI holds no lock, so the statements of different
\* goroutines interleave freely. The assignment into the map (line 80) is not
\* atomic: it begins and ends, and an access by another goroutine in between
\* is a data race, which the Go runtime either detects (the process dies with
\* "concurrent map read and map write" / "concurrent map writes") or lets pass.
Contexts == {"g1", "g2"}

ConcWorld ==
    World(ChainServer,
          {<<JA, Itoa(5)>>, <<JA, Itoa(4)>>, <<JA, lastBuild>>, <<JFolder, Itoa(1)>>},
          {}, {})

CtxIdle(n) == [pc |-> "idle", job |-> <<>>, id |-> <<>>, result |-> ZeroStatus,
               target |-> 0, calls |-> n]

InitConc ==
    /\ world = ConcWorld
    /\ cachedStatuses = NilMap
    /\ hist = <<>>
    /\ pc = "idle"
    /\ WalkIdle
    /\ netCalls = 0
    /\ logCall = <<>>
    /\ testCall = <<>>
    /\ cstate = [ctx     |-> [c \in Contexts |-> CtxIdle(0)],
                 gen     |-> 0,      \* how many maps make() has created
                 writing |-> {},     \* goroutines inside a map assignment
                 race    |-> FALSE,  \* an access overlapped an unsynchronised write
                 fatal   |-> FALSE,  \* the runtime killed the process
                 stored  |-> {}]     \* keys whose assignment has completed

Local(c) == cstate.ctx[c]
Running == ~cstate.fatal
OthersWriting(c) == cstate.writing \ {c} # {}
Goto(c, l) == [cstate EXCEPT !.ctx[c].pc = l]
Returned(st, c) == [st EXCEPT !.ctx[c] = CtxIdle(Local(c).calls + 1)]
concFrame == <<world, hist, pc, walkVars, netCalls, logCall, testCall>>

\* lines 51-57: entry, the folder check and the alias test
CEnter(c, job, i) ==
    /\ Running /\ Local(c).pc = "idle" /\ Local(c).calls < MaxCalls
    /\ <<job, i>> \in world.gets
    /\ cstate' =
         IF IsFolderJob(job) THEN Returned(cstate, c)
         ELSE [cstate EXCEPT !.ctx[c].job = job, !.ctx[c].id = i,
                             !.ctx[c].pc = IF NotAlias(i) THEN "checkNil" ELSE "fetch"]
    /\ UNCHANGED <<cachedStatuses, concFrame>>

\* line 58: if api.cachedStatuses == nil
CCheckNil(c) ==
    /\ Running /\ Local(c).pc = "checkNil"
    /\ cstate' = Goto(c, IF cachedStatuses.isNil THEN "make" ELSE "lookup")
    /\ UNCHANGED <<cachedStatuses, concFrame>>

\* line 59: api.cachedStatuses = make(map[string](*JobStatus), 0)
CMake(c) ==
    /\ Running /\ Local(c).pc = "make"
    /\ cachedStatuses' = [isNil |-> FALSE, m |-> <<>>]
    /\ cstate' = [Goto(c, "lookup") EXCEPT !.gen = @ + 1]
    /\ UNCHANGED concFrame

\* lines 61-64: the cache lookup
CLookup(c) ==
    /\ Running /\ Local(c).pc = "lookup"
    /\ \E detected \in IF OthersWriting(c) THEN BOOLEAN ELSE {FALSE} :
         cstate' =
           LET st == [cstate EXCEPT !.race = @ \/ OthersWriting(c), !.fatal = detected]
           IN  IF detected THEN st
               ELSE IF CacheHit(cachedStatuses, Local(c).job, Local(c).id)
               THEN Returned(st, c)
               ELSE [st EXCEPT !.ctx[c].pc = "fetch"]
    /\ UNCHANGED <<cachedStatuses, concFrame>>

\* lines 66-79 and 82: the fetch, the decoding and the test that guards the store
CFetch(c) ==
    /\ Running /\ Local(c).pc = "fetch"
    /\ LET r == HttpGet(world.server, Local(c).job, Local(c).id) IN
       cstate' =
         IF r.failed \/ r.StatusCode = 404 \/ ~ShouldStore(r, Local(c).id)
         THEN Returned(cstate, c)
         ELSE [cstate EXCEPT !.ctx[c].result = r.body, !.ctx[c].pc = "store"]
    /\ UNCHANGED <<cachedStatuses, concFrame>>

\* line 80, first half: the assignment starts on the map the field names now
CStoreBegin(c) ==
    /\ Running /\ Local(c).pc = "store"
    /\ \E detected \in IF OthersWriting(c) THEN BOOLEAN ELSE {FALSE} :
         cstate' = [cstate EXCEPT !.race = @ \/ OthersWriting(c),
                                  !.fatal = detected,
                                  !.writing = @ \cup {c},
                                  !.ctx[c].target = cstate.gen,
                                  !.ctx[c].pc = "storing"]
    /\ UNCHANGED <<cachedStatuses, concFrame>>

\* line 80, second half, and line 82: the entry is in the map the assignment
\* started on, which is the cache only if no make() replaced it meanwhile
CStoreEnd(c) ==
    /\ Running /\ Local(c).pc = "storing"
    /\ cachedStatuses' =
         IF Local(c).target = cstate.gen
         THEN StoreStatus(cachedStatuses, Local(c).job, Local(c).id, Local(c).result)
         ELSE cachedStatuses
    /\ cstate' = [Returned(cstate, c) EXCEPT
                    !.writing = @ \ {c},
                    !.stored = @ \cup {possibleCacheKey(Local(c).job, Local(c).id)}]
    /\ UNCHANGED concFrame

NextConc ==
    \/ \E c \in Contexts : \E k \in world.gets : CEnter(c, k[1], k[2])
    \/ \E c \in Contexts : CCheckNil(c)
    \/ \E c \in Contexts : CMake(c)
    \/ \E c \in Contexts : CLookup(c)
    \/ \E c \in Contexts : CFetch(c)
    \/ \E c \in Contexts : CStoreBegin(c)
    \/ \E c \in Contexts : CStoreEnd(c)

SpecConc == InitConc /\ [][NextConc]_vars

(***************************** C9 ******************************************)
\* C9: the status cache is safe under concurrent Get calls on one resolver:
\* under every interleaving, first-use creation of the cache included, no
\* cache access overlaps an unsynchronised write by another context, and an
\* entry stored by one call is never lost to a concurrent call.
C9_CacheSafeUnderConcurrentGet ==
    /\ ~cstate.race
    /\ ~cstate.fatal
    /\ cstate.stored \subseteq DOMAIN cachedStatuses.m

(***************************** C11 *****************************************)
\* C11: Get returns a record only when the response was reached and parsed: a
\* not-found response yields NotFound, any other failure to reach the service
\* or to parse the response yields an error, never a record with a nil error.
C11_RecordOnlyWhenParsed ==
    \A h \in CompletedGets :
        ~HasPathSeparator(h.job) =>
            /\ Outcome(h.job, h.id) = "NotFound" => ErrorKind(h.err) = "NotFound"
            /\ Outcome(h.job, h.id) \in {"TransportError", "DecodeError"}
                  => h.err # NoError /\ h.isNil
            /\ h.err = NoError => Outcome(h.job, h.id) = "Record"

SetAfter(h, k) == IF k < Len(h.trace) THEN h.trace[k + 1].set ELSE h.ret

\* The iterations of a completed walk whose payload did not decode.
UndecodedAt(h) == {k \in DOMAIN h.trace : Outcome(h.job, h.trace[k].id) = "DecodeError"}

\* No cache entry is the outcome of a failed decode.
NoUndecodedEntry ==
    \A key \in DOMAIN cachedStatuses.m :
        \A k \in DOMAIN world.server :
            key = k[1] \o <<"-">> \o k[2] => Outcome(k[1], k[2]) # "DecodeError"

GoesOnBelow(h, k) ==
    IF k < Len(h.trace)
    THEN h.trace[k + 1].id = Itoa(Atoi(h.trace[k].id).val - 1)
    ELSE h.stop = "budget"

BranchNames(status) ==
    LET kinds == {Classify(c) : c \in Range(FlattenCauses(status.Actions))} IN
    (IF "scm" \in kinds THEN addCulpritIdsToSet({}, status.Culprits) ELSE {})
    \cup (IF "commit" \in kinds THEN addChangeSetsToSet({}, status.ChangeSets) ELSE {})

\* The same, over the builds that upstream resolution fetched in a walk.
BranchNamesUpstream(h) ==
    UNION {BranchNames(RecordOf(u[1], Itoa(u[2]))) :
              u \in {v \in Range(h.upstream) : Holds(v[1], Itoa(v[2]))}}

\* C18 as stated: CausesOfFailures returns the same set as the variant in
\* which the SCM-change and commit-notification branches do nothing, causes
\* classified while resolving an upstream build included.
C18_Original ==
    \A h \in CompletedWalks : h.ret = h.plain

\* C18 as amended: the two branches are redundant for the builds the walk
\* itself visits; for a build fetched by upstream resolution they add that
\* build's culprits or change-set authors, which nothing else merges. The
\* result is the variant's result plus exactly those names.
C18_BranchesRedundantForWalkedBuilds ==
    \A h \in CompletedWalks :
        /\ h.ret = h.plain \cup BranchNamesUpstream(h)
        /\ h.upstream = <<>> => h.ret = h.plain

C18_Witness ==
    \E h \in CompletedWalks :
        /\ world.server = RedundantServer
        /\ h.upstream = <<<<JB, 1>>>>
        /\ h.plain = {"A", "H"}
        /\ h.ret = {"A", "H", "D"}

(***************************** C19 *****************************************)
\* The cause that addActionIdsToSet is about to classify.
AtCause == pc = "actions" /\ stack # <<>> /\ Last(stack).pos <= Len(Last(stack).causes)
CurrentCause == Last(stack).causes[Last(stack).pos]
NoFetch ==
    upstream' = upstream /\ netCalls' = netCalls /\ cachedStatuses' = cachedStatuses

\* C19: a cause is classified by exactly one rule, the first that matches in
\* the order user id, upstream, SCM change, commit notification, none: a
\* cause with a user id merges that user id alone and fetches no upstream
\* build even if it has upstream fields; an unclassified cause adds nothing.
C19_FirstMatchWins ==
    [][AtCause =>
        LET c        == CurrentCause
            status   == Last(stack).status
            user     == c.UserID # ""
            upstr    == c.UpstreamBuild # 0 /\ c.UpstreamProject # <<>>
            scm      == c.ShortDescription = SCMChangeDescription
            commit   == HasPrefix(c.ShortDescription, CommitNotificationPrefix)
        IN
        /\ user => set' = set \cup {c.UserID} /\ NoFetch
        /\ (~user /\ upstr) =>
              /\ upstream' = Append(upstream, <<c.UpstreamProject, c.UpstreamBuild>>)
              /\ set' = set
        /\ (~user /\ ~upstr /\ scm) =>
              /\ set' = set \cup {status.Culprits[k].FullName : k \in DOMAIN status.Culprits}
              /\ NoFetch
        /\ (~user /\ ~upstr /\ ~scm /\ commit) =>
              /\ set' = set \cup UNION {{cs.Items[j].Author.FullName : j \in DOMAIN cs.Items} :
                                            cs \in Range(status.ChangeSets)}
              /\ NoFetch
        /\ (~user /\ ~upstr /\ ~scm /\ ~commit) => set' = set /\ NoFetch
    ]_vars

C19_Witness ==
    \E h \in CompletedWalks :
        /\ world.server = MixedServer
        /\ h.ret = {"U", "K"}
        /\ h.upstream = <<>>
        /\ h.trace[1].net = 1 /\ h.trace[2].set = {"U", "K"}

(***************************** GetLastLogLines *****************************)
sizeOfSuffix == 2048
NL == "\n"

\* The end of the match of <[^>]+> at the head of s, 0 if there is none: the
\* first ">" closes the tag, and at least one character stands before it.
TagEnd(s) ==
    LET closers == {q \in 2..Len(s) : s[q] = ">"} IN
    IF Head(s) # "<" \/ closers = {} THEN 0
    ELSE LET first == CHOOSE q \in closers : \A r \in closers : q <= r
         IN  IF first = 2 THEN 0 ELSE first

\* matcherForHTMLAndWeirdCharacters.ReplaceAllString(s, ""): every match of
\* (<[^>]+>)|(\r), leftmost first, is removed.
RECURSIVE ReplaceAllString(_)
ReplaceAllString(s) ==
    IF s = <<>> THEN <<>>
    ELSE IF TagEnd(s) # 0 THEN ReplaceAllString(SubSeq(s, TagEnd(s) + 1, Len(s)))
    ELSE IF Head(s) = "\r" THEN ReplaceAllString(Tail(s))
    ELSE <<Head(s)>> \o ReplaceAllString(Tail(s))

\* The lines kept in the order the backward scan found them.
Reverse_None(s) == s

\* for i := 0; i < len(dataAsString)/2; i++ { swap }
Reverse(s) == [k \in 1..Len(s) |-> s[Len(s) + 1 - k]]

\* The status test of the size probe left out.
ProbeStatusOK_Any(code) == TRUE

\* resp.StatusCode != 200 is the error case of fetchSizeForLastLogLines
ProbeStatusOK(code) == code = 200

\* size - sizeOfSuffix, the start parameter of the content request
StartOffset(size) == size - sizeOfSuffix

\* The answers to the HEAD request: the transport fails, or a status code
\* comes with the X-Text-Size header (empty when absent).
ProbeReply(failed, code, textSize) ==
    [failed |-> failed, StatusCode |-> code, textSize |-> textSize]
\* The answers to the GET request.
ContentReply(failed, code, body) == [failed |-> failed, StatusCode |-> code, body |-> body]

LogSizes == {0, 100, 2047, 2048, 2049, 5000}
Probes ==
    {ProbeReply(TRUE, 0, <<>>), ProbeReply(FALSE, 404, Itoa(5000)),
     ProbeReply(FALSE, 200, <<>>), ProbeReply(FALSE, 200, NotANumber)}
    \cup {ProbeReply(FALSE, 200, Itoa(n)) : n \in LogSizes}

LineTexts ==
    {<<>>, <<"a">>, <<"b", "c">>, <<"<", "i", ">", "b">>, <<"c", "\r">>}

RECURSIVE JoinLines(_)
JoinLines(ls) ==
    IF ls = <<>> THEN <<>>
    ELSE IF Len(ls) = 1 THEN ls[1]
    ELSE ls[1] \o <<NL>> \o JoinLines(Tail(ls))

ExampleBuffer == <<"a", NL, "b", NL, "c", NL, "d", NL>>
Buffers ==
    {ExampleBuffer}
    \cup UNION {{JoinLines(ls), JoinLines(ls) \o <<NL>>} :
                   ls \in UNION {[1..n -> LineTexts] : n \in 0..MaxBufferLines}}
Contents ==
    {ContentReply(TRUE, 0, <<>>), ContentReply(FALSE, 500, <<>>)}
    \cup {ContentReply(FALSE, 200, b) : b \in Buffers}

\* func (api *ServerAPI) GetLastLogLines(job, id, lineCount): the call begins
TailStart(probe, content, lineCount) ==
    [pc |-> "size", probe |-> probe, content |-> content, lineCount |-> lineCount,
     requests |-> <<>>, size |-> 0, data |-> <<>>, i |-> 0, nl |-> 0, endIter |-> 0,
     dataAsString |-> <<>>, err |-> NoError]

tailFrame == <<world, cachedStatuses, hist, pc, walkVars, netCalls, cstate, testCall>>

TailReturn(st, err) == [st EXCEPT !.pc = "returned", !.err = err]

\* func fetchSizeForLastLogLines, and the error check of GetLastLogLines
fetchSizeForLastLogLines ==
    /\ logCall # <<>> /\ logCall.pc = "size"
    /\ LET resp == logCall.probe
           sent == [logCall EXCEPT !.requests = Append(@, [method |-> "HEAD"])]
       IN
       logCall' =
          IF resp.failed THEN TailReturn(sent, errHTTP)
          ELSE IF ~ProbeStatusOK(resp.StatusCode)
          THEN TailReturn(sent, "could not fetch log size")
          ELSE IF resp.textSize = <<>>
          THEN TailReturn(sent, "size not received from server HEAD call")
          ELSE IF ~Atoi(resp.textSize).ok
          THEN TailReturn(sent, "strconv.Atoi error")
          ELSE [sent EXCEPT !.size = Atoi(resp.textSize).val, !.pc = "fetch"]
    /\ UNCHANGED tailFrame

\* func fetchLinesForLastLogLines, up to the scan loop
fetchLinesForLastLogLines ==
    /\ logCall # <<>> /\ logCall.pc = "fetch"
    /\ LET resp == logCall.content
           sent == [logCall EXCEPT !.requests =
                       Append(@, [method |-> "GET", start |-> StartOffset(logCall.size)])]
       IN
       logCall' =
          IF resp.failed THEN TailReturn(sent, errHTTP)
          ELSE IF resp.StatusCode # 200
          THEN TailReturn(sent, "not able to fetch console output")
          ELSE [sent EXCEPT !.data = resp.body, !.nl = 0, !.endIter = Len(resp.body),
                            !.i = Len(resp.body), !.pc = "scan"]
    /\ UNCHANGED tailFrame

\* One iteration of the backward scan (positions count from 1 here, so
\* data[i+1:endIter] is SubSeq(data, i + 1, endIter - 1)).
ScanStep ==
    /\ logCall # <<>> /\ logCall.pc = "scan"
    /\ LET i == logCall.i
           e == logCall.endIter
           d == logCall.data
       IN
       logCall' =
          IF ~(i >= 1 /\ logCall.nl < logCall.lineCount)
          THEN [logCall EXCEPT !.pc = "reverse"]
          ELSE IF d[i] = NL /\ i # e
          THEN [logCall EXCEPT
                    !.nl = @ + 1,
                    !.dataAsString =
                        Append(@, [line |-> ReplaceAllString(SubSeq(d, i + 1, e - 1)),
                                   at   |-> i + 1]),
                    !.endIter = i,
                    !.i = i - 1]
          ELSE [logCall EXCEPT !.i = i - 1]
    /\ UNCHANGED tailFrame

\* The in-place reversal, and return dataAsString, nil
ReverseLines ==
    /\ logCall # <<>> /\ logCall.pc = "reverse"
    /\ logCall' = [logCall EXCEPT !.dataAsString = Reverse(@), !.pc = "returned"]
    /\ UNCHANGED tailFrame

InitTail ==
    /\ world = ConcWorld
    /\ cachedStatuses = NilMap
    /\ hist = <<>>
    /\ pc = "idle"
    /\ WalkIdle
    /\ netCalls = 0
    /\ cstate = <<>>
    /\ testCall = <<>>
    /\ logCall \in {TailStart(p, c, n) : p \in Probes, c \in Contents, n \in 0..MaxLineCount}

NextTail ==
    \/ fetchSizeForLastLogLines
    \/ fetchLinesForLastLogLines
    \/ ScanStep
    \/ ReverseLines

SpecTail == InitTail /\ [][NextTail]_vars

\* A GetLastLogLines call that returned lines.
TailDone == logCall # <<>> /\ logCall.pc = "returned" /\ logCall.err = NoError
TailResult == [k \in DOMAIN logCall.dataAsString |-> logCall.dataAsString[k].line]
Methods == [k \in DOMAIN logCall.requests |-> logCall.requests[k].method]

(***************************** C13 *****************************************)
\* C13: GetLastLogLines returns the lines oldest first, in the order in which
\* they stand in the fetched buffer; for the buffer "a\nb\nc\nd\n" and
\* lineCount 3 the result is exactly <<"b", "c", "d">>.
C13_ChronologicalOrder ==
    TailDone =>
        /\ \A a, b \in DOMAIN logCall.dataAsString :
              a < b => logCall.dataAsString[a].at < logCall.dataAsString[b].at
        /\ (logCall.data = ExampleBuffer /\ logCall.lineCount = 3)
              => TailResult = <<  <<"b">>, <<"c">>, <<"d">>  >>

C13_Witness ==
    /\ TailDone
    /\ logCall.data = ExampleBuffer /\ logCall.lineCount = 3
    /\ TailResult = <<  <<"b">>, <<"c">>, <<"d">>  >>

(***************************** C14 *****************************************)
\* C14: for every total size the probe reports, the offset the content
\* request asks for is max(0, totalSize - 2048); it is never negative.
C14_OffsetClampedAtZero ==
    logCall # <<>> =>
        \A k \in DOMAIN logCall.requests :
            logCall.requests[k].method = "GET" =>
                LET totalSize == Atoi(logCall.probe.textSize).val IN
                /\ logCall.requests[k].start >= 0
                /\ logCall.requests[k].start =
                      IF totalSize - 2048 > 0 THEN totalSize - 2048 ELSE 0

(***************************** C15 *****************************************)
\* C15: a GetLastLogLines call issues one size probe and then at most one
\* content request; the content request is issued only if the probe came
\* back with status 200 and a size header, and no second content request
\* follows even when fewer than lineCount lines were obtained.
C15_ProbeThenAtMostOneFetch ==
    logCall # <<>> =>
        /\ Methods \in {<<>>, <<"HEAD">>, <<"HEAD", "GET">>}
        /\ logCall.pc # "size" => Methods # <<>>
        /\ Len(Methods) = 2 =>
              /\ ~logCall.probe.failed
              /\ logCall.probe.StatusCode = 200
              /\ logCall.probe.textSize # <<>>

C15_Witness ==
    /\ TailDone
    /\ Len(TailResult) < logCall.lineCount
    /\ Methods = <<"HEAD", "GET">>

(***************************** C20 *****************************************)
\* The pieces of s between its newlines, first to last.
RECURSIVE Pieces(_)
Pieces(s) ==
    LET nls == {q \in DOMAIN s : s[q] = NL} IN
    IF nls = {} THEN <<s>>
    ELSE LET first == CHOOSE q \in nls : \A r \in nls : q <= r
         IN  <<SubSeq(s, 1, first - 1)>> \o Pieces(SubSeq(s, first + 1, Len(s)))

\* The lines of a buffer: the pieces that follow a newline, up to the next
\* newline or, for an unterminated last line, up to the end of the buffer.
LinesOf(s) ==
    LET ps       == Pieces(s)
        complete == IF Last(ps) = <<>> THEN SubSeq(ps, 1, Len(ps) - 1) ELSE ps
    IN  IF complete = <<>> THEN <<>> ELSE Tail(complete)

LastN(s, n) == SubSeq(s, Len(s) - (IF n < Len(s) THEN n ELSE Len(s)) + 1, Len(s))

\* C20: for every fetched buffer and lineCount n, GetLastLogLines returns the
\* last min(n, L) lines of the buffer, each the complete sanitized text
\* between its boundaries, whether or not the buffer ends with a newline.
C20_LastCompleteLines ==
    TailDone =>
        LET expected == LastN(LinesOf(logCall.data), logCall.lineCount) IN
        TailResult = [k \in DOMAIN expected |-> ReplaceAllString(expected[k])]

\* The same for buffers that end with a newline.
TerminatedBufferLines ==
    (TailDone /\ logCall.data # <<>> /\ Last(logCall.data) = NL) => C20_LastCompleteLines

(***************************** GetFailedTestListFor ************************)
TestCase(className, testName, status) ==
    [ClassName |-> className, Name |-> testName, Status |-> status]

\* The filter without its third test.
KeepCase_FixedKept(aCase) == aCase.Status # "PASSED" /\ aCase.Status # "SKIPPED"

\* aCase.Status != "PASSED" && aCase.Status != "SKIPPED" && aCase.Status != "FIXED"
KeepCase(aCase) ==
    aCase.Status # "PASSED" /\ aCase.Status # "SKIPPED" /\ aCase.Status # "FIXED"

Statuses == {"PASSED", "FAILED", "SKIPPED", "FIXED", "REGRESSION"}
SuiteNames == <<"s1", "s2">>
CaseNames == <<"t1", "t2", "t3", "t4">>

\* The suites a report may hold for suite number k: up to MaxCases cases,
\* named by their place, of any status.
SuitesFor(k) ==
    {[Cases |-> [j \in 1..n |-> TestCase(SuiteNames[k], CaseNames[j], st[j])]] :
        n \in 0..MaxCases, st \in [1..MaxCases -> Statuses]}

\* The reports: none, one or two suites.
Reports ==
    {[Suites |-> <<>>]}
    \cup {[Suites |-> <<a>>] : a \in SuitesFor(1)}
    \cup {[Suites |-> <<a, b>>] : a \in SuitesFor(1), b \in SuitesFor(2)}

ReportReply(failed, code, decodeErr, report) ==
    [failed |-> failed, StatusCode |-> code, decodeErr |-> decodeErr, body |-> report]
ReportReplies ==
    {ReportReply(TRUE, 0, FALSE, [Suites |-> <<>>]),
     ReportReply(FALSE, 404, FALSE, [Suites |-> <<>>]),
     ReportReply(FALSE, 200, TRUE, [Suites |-> <<>>])}
    \cup {ReportReply(FALSE, 200, FALSE, r) : r \in Reports}

\* func (api *ServerAPI) GetFailedTestListFor(job, id): the call begins
TestsStart(reply) ==
    [pc |-> "get", reply |-> reply, received |-> [Suites |-> <<>>], suite |-> 1, case |-> 1,
     results |-> <<>>, isNil |-> TRUE, err |-> NoError]

testFrame == <<world, cachedStatuses, hist, pc, walkVars, netCalls, cstate, logCall>>

\* GetFailedTestListFor up to results = make([]TestCase, 0)
GetFailedTestListFor ==
    /\ testCall # <<>> /\ testCall.pc = "get"
    /\ LET resp == testCall.reply IN
       testCall' =
          IF resp.failed THEN [testCall EXCEPT !.pc = "returned", !.err = errHTTP]
          ELSE IF resp.StatusCode = 404
          THEN [testCall EXCEPT !.pc = "returned", !.err = "no test report found"]
          ELSE IF resp.decodeErr
          THEN [testCall EXCEPT !.pc = "returned", !.err = "json decode error"]
          ELSE [testCall EXCEPT !.pc = "filter", !.received = resp.body, !.isNil = FALSE]
    /\ UNCHANGED testFrame

\* One step of the two nested range loops, and the return after them.
FilterStep ==
    /\ testCall # <<>> /\ testCall.pc = "filter"
    /\ LET suites == testCall.received.Suites
           s      == testCall.suite
           c      == testCall.case
       IN
       testCall' =
          IF s > Len(suites) THEN [testCall EXCEPT !.pc = "returned"]
          ELSE IF c > Len(suites[s].Cases)
          THEN [testCall EXCEPT !.suite = s + 1, !.case = 1]
          ELSE IF KeepCase(suites[s].Cases[c])
          THEN [testCall EXCEPT !.results = Append(@, suites[s].Cases[c]), !.case = c + 1]
          ELSE [testCall EXCEPT !.case = c + 1]
    /\ UNCHANGED testFrame

InitTests ==
    /\ world = ConcWorld
    /\ cachedStatuses = NilMap
    /\ hist = <<>>
    /\ pc = "idle"
    /\ WalkIdle
    /\ netCalls = 0
    /\ cstate = <<>>
    /\ logCall = <<>>
    /\ testCall \in {TestsStart(r) : r \in ReportReplies}

NextTests ==
    \/ GetFailedTestListFor
    \/ FilterStep

SpecTests == InitTests /\ [][NextTests]_vars

(***************************** C16 *****************************************)
TestsDone == testCall # <<>> /\ testCall.pc = "returned" /\ testCall.err = NoError

\* The cases of a report, suites in received order, cases in received order.
RECURSIVE AllCases(_)
AllCases(suites) ==
    IF suites = <<>> THEN <<>> ELSE Head(suites).Cases \o AllCases(Tail(suites))

NotPassedSkippedFixed(aCase) == aCase.Status \notin {"PASSED", "SKIPPED", "FIXED"}

\* C16: GetFailedTestListFor returns exactly the subsequence of the report's
\* cases whose Status is not PASSED, SKIPPED or FIXED: none of them is
\* dropped, no filtered case is kept, and their order is the received order.
C16_FailedTestsAreTheFilteredSubsequence ==
    TestsDone =>
        testCall.results = SelectSeq(AllCases(testCall.reply.body.Suites), NotPassedSkippedFixed)

C16_Witness ==
    /\ TestsDone
    /\ Len(testCall.results) = 2
    /\ testCall.results[1].ClassName = "s1" /\ testCall.results[2].ClassName = "s2"
    /\ Len(AllCases(testCall.reply.body.Suites)) = 4
    /\ \E k \in 1..4 : AllCases(testCall.reply.body.Suites)[k].Status = "FIXED"

(***************************** C21 *****************************************)
\* What the resolution of an upstream build merges from its record: the user
\* ids of its causes and what its SCM-change and commit branches add.
UpstreamNames(status) ==
    UNION {{a.Causes[j].UserID : j \in {x \in DOMAIN a.Causes : a.Causes[x].UserID # ""}} :
              a \in Range(status.Actions)}
    \cup BranchNames(status)

\* The iterations of a completed walk that classified the causes of a build.
ClassifiedAt(h) ==
    {k \in DOMAIN h.trace :
        h.trace[k].err = NoError /\ h.trace[k].Result \notin {"SUCCESS", "FIXED"}}

\* The build of iteration k names an upstream build whose resolution fails
\* with one of the kinds in fails.
HasFailingUpstream(h, k, fails) ==
    \E c \in Range(FlattenCauses(RecordOf(h.job, h.trace[k].id).Actions)) :
        /\ c.UserID = "" /\ c.UpstreamBuild # 0 /\ c.UpstreamProject # <<>>
        /\ Outcome(c.UpstreamProject, Itoa(c.UpstreamBuild)) \in fails

\* An upstream resolution that ends in one of the kinds in fails adds nothing
\* and stops nothing.
FailedUpstreamSkipped(fails) ==
    \A h \in CompletedWalks :
        /\ \A c \in h.ret :
              \/ \E k \in ClassifiedAt(h) : c \in NamesIn(RecordOf(h.job, h.trace[k].id))
              \/ \E u \in Range(h.upstream) :
                    /\ Outcome(u[1], Itoa(u[2])) \notin fails
                    /\ Holds(u[1], Itoa(u[2]))
                    /\ c \in UpstreamNames(RecordOf(u[1], Itoa(u[2])))
        /\ \A k \in ClassifiedAt(h) :
              HasFailingUpstream(h, k, fails) =>
                  /\ h.trace[k].set \cup NamesIn(RecordOf(h.job, h.trace[k].id))
                        \subseteq SetAfter(h, k)
                  /\ GoesOnBelow(h, k)

\* C21: a failure (NotFound or any other error) while resolving an upstream
\* cause contributes nothing for that cause and does not stop the walk: the
\* remaining causes of the build are still classified, what was accumulated
\* is kept, and the loop goes on with currentID - 1.
C21_FailedUpstreamResolutionIsSkipped ==
    FailedUpstreamSkipped({"NotFound", "NotSupported", "TransportError", "DecodeError"})

\* The same for the failures that GetStatusForJob reports as an error.
ReportedUpstreamFailureIsSkipped ==
    FailedUpstreamSkipped({"NotFound", "NotSupported", "TransportError"})

(***************************** C22 *****************************************)
\* C22: in a CausesOfFailures call started at a positive numeric id, every id
\* the walker asks the resolver for is a positive integer; the scan never
\* asks for build 0 or a negative build, even when the history down to build
\* 1 holds only failures and purged builds.
C22_OnlyPositiveIDsRequested ==
    /\ (pc # "idle" /\ IsNumericID(startID)) =>
          \A k \in DOMAIN trace : Atoi(trace[k].id).val > 0
    /\ \A h \in CompletedWalks :
          IsNumericID(h.id) => \A k \in DOMAIN h.trace : Atoi(h.trace[k].id).val > 0

====
